---- MODULE Spec2Model ----
(***************************************************************************)
(* silver_gap_alert.py: one run of the silver ETF gap alert.               *)
(*                                                                         *)
(* The script imports its configuration from the environment, fetches     *)
(* four prices through last_price (two ETFs, the silver future, USD/INR),  *)
(* derives a benchmark in INR per gram, and alerts through send_telegram   *)
(* when the ETF gap is large and the two benchmark ratios agree.           *)
(*                                                                         *)
(* Python floats are IEEE-754 binary64 values.  They are modelled bit for  *)
(* bit: a finite value is sign, 53-bit significand and exponent, and every *)
(* operation rounds its exact result to nearest, ties to even.             *)
(* Significands are natural numbers held as little-endian sequences of     *)
(* 15-bit limbs, since products and quotients need more than 32 bits.      *)
(***************************************************************************)
EXTENDS Integers, Sequences, FiniteSets, TLC

(***************************************************************************)
(* Natural numbers of arbitrary size: <<>> is 0, the last limb is nonzero. *)
(***************************************************************************)
LimbBits == 15
Limb == 32768

RECURSIVE Pow2(_)
Pow2(k) == IF k = 0 THEN 1 ELSE 2 * Pow2(k - 1)

Rest(a) == IF a = <<>> THEN <<>> ELSE Tail(a)
Low(a) == IF a = <<>> THEN 0 ELSE Head(a)

RECURSIVE BNorm(_)
BNorm(a) ==
  IF a = <<>> THEN a
  ELSE IF a[Len(a)] = 0 THEN BNorm(SubSeq(a, 1, Len(a) - 1)) ELSE a

RECURSIVE BFromInt(_)
BFromInt(n) == IF n = 0 THEN <<>> ELSE <<n % Limb>> \o BFromInt(n \div Limb)

RECURSIVE BAddC(_, _, _)
BAddC(a, b, c) ==
  IF a = <<>> /\ b = <<>> THEN (IF c = 0 THEN <<>> ELSE <<c>>)
  ELSE LET s == Low(a) + Low(b) + c
       IN  <<s % Limb>> \o BAddC(Rest(a), Rest(b), s \div Limb)

BAdd(a, b) == BAddC(a, b, 0)

\* a - b - c for a >= b + c, before the high zero limbs are dropped
RECURSIVE BSubC(_, _, _)
BSubC(a, b, c) ==
  IF a = <<>> THEN <<>>
  ELSE LET d == Low(a) - Low(b) - c
       IN  IF d < 0 THEN <<d + Limb>> \o BSubC(Rest(a), Rest(b), 1)
           ELSE <<d>> \o BSubC(Rest(a), Rest(b), 0)

BSub(a, b) == BNorm(BSubC(a, b, 0))

\* -1, 0, 1 as a < b, a = b, a > b
RECURSIVE BCmpTop(_, _, _)
BCmpTop(a, b, i) ==
  IF i = 0 THEN 0
  ELSE IF a[i] < b[i] THEN -1
  ELSE IF a[i] > b[i] THEN 1
  ELSE BCmpTop(a, b, i - 1)

BCmp(a, b) ==
  IF Len(a) < Len(b) THEN -1
  ELSE IF Len(a) > Len(b) THEN 1
  ELSE BCmpTop(a, b, Len(a))

\* a * k + c for a limb k
RECURSIVE BMulSmallC(_, _, _)
BMulSmallC(a, k, c) ==
  IF a = <<>> THEN (IF c = 0 THEN <<>> ELSE <<c>>)
  ELSE LET p == Head(a) * k + c
       IN  <<p % Limb>> \o BMulSmallC(Tail(a), k, p \div Limb)

BMulSmall(a, k) == BNorm(BMulSmallC(a, k, 0))

RECURSIVE BMulAcc(_, _)
BMulAcc(a, b) ==
  IF b = <<>> THEN <<>>
  ELSE BAdd(BMulSmallC(a, Head(b), 0), <<0>> \o BMulAcc(a, Tail(b)))

BMul(a, b) == IF a = <<>> \/ b = <<>> THEN <<>> ELSE BNorm(BMulAcc(a, b))

Zeros(n) == [i \in 1..n |-> 0]

BShl(a, n) ==
  IF a = <<>> THEN <<>>
  ELSE Zeros(n \div LimbBits) \o BMulSmall(a, Pow2(n % LimbBits))

\* floor(a / k) for a limb k, from the top limb down
RECURSIVE BDivSmallTop(_, _, _, _)
BDivSmallTop(a, k, i, r) ==
  IF i = 0 THEN <<>>
  ELSE LET x == r * Limb + a[i]
       IN  BDivSmallTop(a, k, i - 1, x % k) \o <<x \div k>>

BDrop(a, n) == IF n >= Len(a) THEN <<>> ELSE SubSeq(a, n + 1, Len(a))

\* floor(a / 2^n)
BShr(a, n) ==
  LET d == BDrop(a, n \div LimbBits)
  IN  BNorm(BDivSmallTop(d, Pow2(n % LimbBits), Len(d), 0))

RECURSIVE IntBitLen(_)
IntBitLen(x) == IF x = 0 THEN 0 ELSE 1 + IntBitLen(x \div 2)

BitLen(a) ==
  IF a = <<>> THEN 0 ELSE LimbBits * (Len(a) - 1) + IntBitLen(a[Len(a)])

\* bit i of a, bit 0 the lowest
BBit(a, i) ==
  LET j == i \div LimbBits + 1
  IN  IF j > Len(a) THEN 0 ELSE (a[j] \div Pow2(i % LimbBits)) % 2

\* a mod 2^n is not 0
BLowNonzero(a, n) ==
  LET j == n \div LimbBits
  IN  \/ \E i \in 1..j : i <= Len(a) /\ a[i] # 0
      \/ j + 1 <= Len(a) /\ a[j + 1] % Pow2(n % LimbBits) # 0

(***************************************************************************)
(* binary64 values.  k is the kind: "nan", "inf", "zero" or "fin"; s the   *)
(* sign bit; a finite nonzero value is (-1)^s * m * 2^e, with m of exactly *)
(* 53 bits, or of fewer bits and e = MinExp (a subnormal).                 *)
(***************************************************************************)
Precision == 53
MinExp == -1074
MaxExp == 971

NaN == [k |-> "nan", s |-> 0, m |-> <<>>, e |-> 0]
Inf(s) == [k |-> "inf", s |-> s, m |-> <<>>, e |-> 0]
Zero(s) == [k |-> "zero", s |-> s, m |-> <<>>, e |-> 0]
Fin(s, m, e) == [k |-> "fin", s |-> s, m |-> m, e |-> e]

\* The binary64 nearest to (-1)^s * (n + f) * 2^e, ties to even, where
\* 0 <= f < 1 and f > 0 iff sticky.
Round(s, n, e, sticky) ==
  IF n = <<>> THEN Zero(s)
  ELSE
    LET len == BitLen(n)
        e0 == IF e + len - Precision < MinExp THEN MinExp ELSE e + len - Precision
        sh == e0 - e
    IN  IF sh <= 0 THEN Fin(s, BShl(n, 0 - sh), e0)
        ELSE
          LET q == BShr(n, sh)
              half == BBit(n, sh - 1) = 1
              rest == sticky \/ BLowNonzero(n, sh - 1)
              up == half /\ (rest \/ BBit(q, 0) = 1)
              m1 == IF up THEN BAddC(q, <<>>, 1) ELSE q
              over == BitLen(m1) > Precision
              m2 == IF over THEN BShr(m1, 1) ELSE m1
              e2 == IF over THEN e0 + 1 ELSE e0
          IN  IF m2 = <<>> THEN Zero(s)
              ELSE IF e2 > MaxExp THEN Inf(s)
              ELSE Fin(s, m2, e2)

\* float(n) for an integer n
FromInt(n) == IF n < 0 THEN Round(1, BFromInt(0 - n), 0, FALSE)
              ELSE Round(0, BFromInt(n), 0, FALSE)

FNeg(x) == IF x.k = "nan" THEN x ELSE [x EXCEPT !.s = 1 - x.s]

FAbs(x) == IF x.k = "nan" THEN x ELSE [x EXCEPT !.s = 0]

\* big + tiny for finite nonzero values whose exponents lie more than FarApart
\* apart: tiny is below a quarter of big's last place and only decides the
\* direction of the rounding.
FarApart == 60

FAddFar(big, tiny) ==
  IF big.s = tiny.s THEN Round(big.s, BShl(big.m, 2), big.e - 2, TRUE)
  ELSE Round(big.s, BSub(BShl(big.m, 2), <<1>>), big.e - 2, TRUE)

\* a + b
FAdd(a, b) ==
  IF a.k = "nan" \/ b.k = "nan" THEN NaN
  ELSE IF a.k = "inf"
    THEN (IF b.k = "inf" /\ b.s # a.s THEN NaN ELSE a)
  ELSE IF b.k = "inf" THEN b
  ELSE IF a.k = "zero"
    THEN (IF b.k = "zero" THEN Zero(IF a.s = 1 /\ b.s = 1 THEN 1 ELSE 0) ELSE b)
  ELSE IF b.k = "zero" THEN a
  ELSE IF a.e - b.e > FarApart THEN FAddFar(a, b)
  ELSE IF b.e - a.e > FarApart THEN FAddFar(b, a)
  ELSE
    LET lo == IF a.e < b.e THEN a.e ELSE b.e
        x == BShl(a.m, a.e - lo)
        y == BShl(b.m, b.e - lo)
        c == BCmp(x, y)
    IN  IF a.s = b.s THEN Round(a.s, BAdd(x, y), lo, FALSE)
        ELSE IF c = 0 THEN Zero(0)
        ELSE IF c > 0 THEN Round(a.s, BSub(x, y), lo, FALSE)
        ELSE Round(b.s, BSub(y, x), lo, FALSE)

\* a - b
FSub(p, q) == FAdd(p, FNeg(q))

Xor(s, t) == IF s = t THEN 0 ELSE 1

\* a * b
FMul(a, b) ==
  IF a.k = "nan" \/ b.k = "nan" THEN NaN
  ELSE IF a.k = "inf" \/ b.k = "inf"
    THEN (IF a.k = "zero" \/ b.k = "zero" THEN NaN ELSE Inf(Xor(a.s, b.s)))
  ELSE IF a.k = "zero" \/ b.k = "zero" THEN Zero(Xor(a.s, b.s))
  ELSE Round(Xor(a.s, b.s), BMul(a.m, b.m), a.e + b.e, FALSE)

\* From st = <<q, r>> with r < d: <<q * 2^n + floor(r * 2^n / d), r * 2^n mod d>>,
\* one quotient bit a step.
RECURSIVE DivLoop(_, _, _)
DivLoop(st, d, n) ==
  IF n = 0 THEN st
  ELSE LET r2 == BAddC(st[2], st[2], 0)
       IN  IF BCmp(r2, d) >= 0
           THEN DivLoop(<<BAddC(st[1], st[1], 1), BSub(r2, d)>>, d, n - 1)
           ELSE DivLoop(<<BAddC(st[1], st[1], 0), r2>>, d, n - 1)

\* a / b for b not zero (Python raises ZeroDivisionError on a zero divisor)
FDiv(a, b) ==
  IF a.k = "nan" \/ b.k = "nan" THEN NaN
  ELSE IF a.k = "inf"
    THEN (IF b.k = "inf" THEN NaN ELSE Inf(Xor(a.s, b.s)))
  ELSE IF b.k = "inf" \/ a.k = "zero" THEN Zero(Xor(a.s, b.s))
  ELSE
    LET sa == Precision - BitLen(a.m)
        sb == Precision - BitLen(b.m)
        x == BShl(a.m, sa)
        y == BShl(b.m, sb)
        ge == BCmp(x, y) >= 0
        qr == DivLoop(IF ge THEN <<(<<1>>), BSub(x, y)>> ELSE <<(<<>>), x>>,
                      y, Precision + 2)
    IN  Round(Xor(a.s, b.s), qr[1], (a.e - sa) - (b.e - sb) - (Precision + 2),
              qr[2] # <<>>)

\* the order of two magnitudes, neither a NaN: -1, 0, 1
MagCmp(a, b) ==
  LET rank(x) == IF x.k = "zero" THEN 0 ELSE IF x.k = "fin" THEN 1 ELSE 2
  IN  IF rank(a) < rank(b) THEN -1
      ELSE IF rank(a) > rank(b) THEN 1
      ELSE IF a.k # "fin" THEN 0
      ELSE IF a.e < b.e THEN -1
      ELSE IF a.e > b.e THEN 1
      ELSE BCmp(a.m, b.m)

\* -1, 0, 1 as a < b, a == b, a > b; 2 when unordered (a NaN)
FCmp(a, b) ==
  IF a.k = "nan" \/ b.k = "nan" THEN 2
  ELSE IF a.k = "zero" /\ b.k = "zero" THEN 0
  ELSE IF a.k = "zero" THEN (IF b.s = 0 THEN -1 ELSE 1)
  ELSE IF b.k = "zero" THEN (IF a.s = 0 THEN 1 ELSE -1)
  ELSE IF a.s # b.s THEN (IF a.s = 1 THEN -1 ELSE 1)
  ELSE IF a.s = 0 THEN MagCmp(a, b)
  ELSE MagCmp(b, a)

FLt(a, b) == FCmp(a, b) = -1
FLe(a, b) == FCmp(a, b) \in {-1, 0}
FGt(a, b) == FCmp(a, b) = 1
FGe(a, b) == FCmp(a, b) \in {0, 1}

\* the float a decimal literal n / d denotes, for integers n, d below 2^31
Dec(n, d) == FDiv(FromInt(n), FromInt(d))

(***************************************************************************)
(* Configuration (lines 8-22).                                             *)
(***************************************************************************)
TICKER_A == "GROWWSLVR.NS"
TICKER_B == "SILVERIETF.NS"
SILVER_FUTURES == "SI=F"
USDINR == "USDINR=X"

THRESHOLD == Dec(1, 100)
RATIO_THRESHOLD == Dec(2, 100)
TROY_OUNCE_G == Dec(311034768, 10000000)

\* the order in which main calls last_price
Tickers == <<TICKER_A, TICKER_B, SILVER_FUTURES, USDINR>>

\* Python's None, where a float may stand
None == [k |-> "none", s |-> 0, m |-> <<>>, e |-> 0]

(***************************************************************************)
(* What the run meets outside the program: the environment variables and   *)
(* the values the quote provider reports.                                  *)
(***************************************************************************)
Missing == "<not in os.environ>"
Placeholder == "YOUR_VALUE_HERE"
TokenValues == {Missing, "", Placeholder, "110201543:AAHdqTcvCH1vGWJxfSeofSAs0K5PALDsaw"}
ChatValues == {Missing, Placeholder, "-1001234567890"}

MaxPrice == 3

\* prices the provider may report for an ETF: whole rupees up to MaxPrice, one
\* paisa, and the malformed quotes nan, 0 and -1
EtfValues ==
  {FromInt(n) : n \in 1..MaxPrice} \cup {Dec(1, 100), NaN, Zero(0), FromInt(-1)}

\* silver future, USD per troy ounce: 31.1034768, 0, -31.1034768
FuturesValues == {Dec(311034768, 10000000), Zero(0), FNeg(Dec(311034768, 10000000))}

\* USD/INR: 50, 100
FxValues == {FromInt(50), FromInt(100)}

ProviderValues(ticker) ==
  IF ticker \in {TICKER_A, TICKER_B} THEN EtfValues
  ELSE IF ticker = SILVER_FUTURES THEN FuturesValues
  ELSE FxValues

\* t.fast_info.get("last_price"): raises, returns None, or returns a value
FastOutcomes(ticker) ==
  {[outcome |-> "raised", value |-> None], [outcome |-> "none", value |-> None]}
  \cup {[outcome |-> "value", value |-> v] : v \in ProviderValues(ticker)}

\* t.history(period="1d", interval="1m"): empty, or bars whose last close is value
HistoryOutcomes(ticker) ==
  {[outcome |-> "empty", value |-> None]}
  \cup {[outcome |-> "bars", value |-> v] : v \in ProviderValues(ticker)}

RequestOutcomes == {"ok", "http_error", "exception"}

VARIABLES
  environ,            \* os.environ: BOT_TOKEN and CHAT_ID
  BOT_TOKEN, CHAT_ID, \* the module's globals, set at import
  pc,                 \* where the run stands
  call,               \* which last_price call is running or ran last: 1..4
  price,              \* last_price's local
  queries,            \* the provider queries of the current last_price call
  fetched,            \* the tickers last_price was called with, in order
  groww, silver_etf, etf_diff,
  silver_usd_per_oz, usdinr, bench_gm,
  groww_ratio, silver_ratio, ratio_diff,
  out,                \* what was printed, in order
  notified,           \* calls of send_telegram
  posts,              \* requests.post calls
  err                 \* the exception that ended the run

locals == <<groww, silver_etf, etf_diff, silver_usd_per_oz, usdinr, bench_gm,
            groww_ratio, silver_ratio, ratio_diff>>
config == <<environ, BOT_TOKEN, CHAT_ID>>
fetch == <<call, price, queries, fetched>>
effects == <<out, notified, posts>>

vars == <<config, pc, fetch, locals, effects, err>>

Init ==
  /\ environ \in [BOT_TOKEN : TokenValues, CHAT_ID : ChatValues]
  /\ BOT_TOKEN = Missing /\ CHAT_ID = Missing
  /\ pc = "import"
  /\ call = 0 /\ price = None /\ queries = <<>> /\ fetched = <<>>
  /\ groww = None /\ silver_etf = None /\ etf_diff = None
  /\ silver_usd_per_oz = None /\ usdinr = None /\ bench_gm = None
  /\ groww_ratio = None /\ silver_ratio = None /\ ratio_diff = None
  /\ out = <<>> /\ notified = 0 /\ posts = 0
  /\ err = "none"

\* an uncaught exception ends the run
Raise(e) == pc' = "failed" /\ err' = e

\* last_price(Tickers[i]) is entered: t = yf.Ticker(ticker); price = None
EnterCall(i) ==
  /\ call' = i
  /\ price' = None
  /\ queries' = <<>>
  /\ fetched' = Append(fetched, Tickers[i])
  /\ pc' = "fast"

\* lines 18-19: os.environ[...] raises KeyError for a variable that is not set
Import ==
  /\ pc = "import"
  /\ IF environ.BOT_TOKEN = Missing \/ environ.CHAT_ID = Missing
     THEN /\ Raise("KeyError")
          /\ UNCHANGED <<BOT_TOKEN, CHAT_ID, fetch>>
     ELSE /\ BOT_TOKEN' = environ.BOT_TOKEN
          /\ CHAT_ID' = environ.CHAT_ID
          /\ EnterCall(1)
          /\ err' = err
  /\ UNCHANGED <<environ, locals, effects>>

\* FastTier with the test of line 56 lost: the history is queried regardless
FastTierFallsThrough ==
  /\ pc = "fast"
  /\ \E o \in FastOutcomes(Tickers[call]) :
       /\ queries' = Append(queries, [tier |-> "fast", outcome |-> o.outcome,
                                      value |-> o.value])
       /\ price' = o.value
       /\ pc' = "history"
  /\ UNCHANGED <<config, call, fetched, locals, effects, err>>

\* lines 50-56: the fast tier; an exception leaves price None
FastTier ==
  /\ pc = "fast"
  /\ \E o \in FastOutcomes(Tickers[call]) :
       /\ queries' = Append(queries, [tier |-> "fast", outcome |-> o.outcome,
                                      value |-> o.value])
       /\ price' = o.value
       /\ pc' = IF o.value = None THEN "history" ELSE "return"
  /\ UNCHANGED <<config, call, fetched, locals, effects, err>>

\* History returning nan for an empty history instead of raising
HistoryReturnsOnEmpty ==
  /\ pc = "history"
  /\ \E o \in HistoryOutcomes(Tickers[call]) :
       /\ queries' = Append(queries, [tier |-> "history", outcome |-> o.outcome,
                                      value |-> o.value])
       /\ price' = IF o.outcome = "empty" THEN NaN ELSE o.value
       /\ pc' = "return"
  /\ UNCHANGED <<config, call, fetched, locals, effects, err>>

\* lines 57-60: the recent bars, queried when price is None
History ==
  /\ pc = "history"
  /\ \E o \in HistoryOutcomes(Tickers[call]) :
       /\ queries' = Append(queries, [tier |-> "history", outcome |-> o.outcome,
                                      value |-> o.value])
       /\ IF o.outcome = "empty"
          THEN Raise("RuntimeError") /\ price' = price
          ELSE price' = o.value /\ pc' = "return" /\ err' = err
  /\ UNCHANGED <<config, call, fetched, locals, effects>>

\* line 62, and the caller's assignment: lines 79, 80-81, 70, 71
Return ==
  /\ pc = "return"
  /\ groww' = IF call = 1 THEN price ELSE groww
  /\ silver_etf' = IF call = 2 THEN price ELSE silver_etf
  /\ etf_diff' = IF call = 2 THEN FSub(groww, price) ELSE etf_diff
  /\ silver_usd_per_oz' = IF call = 3 THEN price ELSE silver_usd_per_oz
  /\ usdinr' = IF call = 4 THEN price ELSE usdinr
  /\ IF call < 4 THEN EnterCall(call + 1)
     ELSE pc' = "benchmark" /\ price' = None /\ queries' = <<>>
          /\ UNCHANGED <<call, fetched>>
  /\ UNCHANGED <<config, bench_gm, groww_ratio, silver_ratio, ratio_diff,
                 effects, err>>

\* lines 73-74 and 83
Benchmark ==
  /\ pc = "benchmark"
  /\ bench_gm' = FDiv(FMul(silver_usd_per_oz, usdinr), TROY_OUNCE_G)
  /\ pc' = "ratios"
  /\ UNCHANGED <<config, fetch, groww, silver_etf, etf_diff, silver_usd_per_oz,
                 usdinr, groww_ratio, silver_ratio, ratio_diff, effects, err>>

\* Ratios with the abs of line 89 lost
RatiosSigned ==
  /\ pc = "ratios"
  /\ IF bench_gm.k = "zero"
     THEN /\ Raise("ZeroDivisionError")
          /\ UNCHANGED <<groww_ratio, silver_ratio, ratio_diff>>
     ELSE /\ groww_ratio' = FDiv(groww, bench_gm)
          /\ silver_ratio' = FDiv(silver_etf, bench_gm)
          /\ ratio_diff' = FSub(FDiv(groww, bench_gm), FDiv(silver_etf, bench_gm))
          /\ pc' = "print"
          /\ err' = err
  /\ UNCHANGED <<config, fetch, groww, silver_etf, etf_diff, silver_usd_per_oz,
                 usdinr, bench_gm, effects>>

\* lines 87-89: float division raises ZeroDivisionError on a zero divisor
Ratios ==
  /\ pc = "ratios"
  /\ IF bench_gm.k = "zero"
     THEN /\ Raise("ZeroDivisionError")
          /\ UNCHANGED <<groww_ratio, silver_ratio, ratio_diff>>
     ELSE /\ groww_ratio' = FDiv(groww, bench_gm)
          /\ silver_ratio' = FDiv(silver_etf, bench_gm)
          /\ ratio_diff' = FAbs(FSub(FDiv(groww, bench_gm), FDiv(silver_etf, bench_gm)))
          /\ pc' = "print"
          /\ err' = err
  /\ UNCHANGED <<config, fetch, groww, silver_etf, etf_diff, silver_usd_per_oz,
                 usdinr, bench_gm, effects>>

Line(kind, reasons) == [line |-> kind, reasons |-> reasons]

\* lines 93-104
DebugPrint ==
  /\ pc = "print"
  /\ out' = Append(out, Line("values", {}))
  /\ pc' = "gate"
  /\ UNCHANGED <<config, fetch, locals, notified, posts, err>>

\* line 109 with >= for >
AlertConditionNonStrict(diff, rdiff) ==
  FGe(FAbs(diff), THRESHOLD) /\ FLt(rdiff, RATIO_THRESHOLD)

\* line 109
AlertCondition(diff, rdiff) ==
  FGt(FAbs(diff), THRESHOLD) /\ FLt(rdiff, RATIO_THRESHOLD)

\* lines 132-136
Reasons(diff, rdiff) ==
  {r \in {"ETF gap not large enough"} : FLe(FAbs(diff), THRESHOLD)}
  \cup {r \in {"Benchmark sanity check failed"} : FGe(rdiff, RATIO_THRESHOLD)}

\* lines 109-137: call send_telegram, or print why not
Gate ==
  /\ pc = "gate"
  /\ IF AlertCondition(etf_diff, ratio_diff)
     THEN /\ notified' = notified + 1
          /\ pc' = "send_telegram"
          /\ out' = out
     ELSE /\ out' = Append(out, Line("No alert", Reasons(etf_diff, ratio_diff)))
          /\ pc' = "done"
          /\ notified' = notified
  /\ UNCHANGED <<config, fetch, locals, posts, err>>

\* send_telegram without the guard of line 31
SendTelegramUnguarded ==
  /\ pc = "send_telegram"
  /\ posts' = posts + 1
  /\ out' = out
  /\ \E r \in RequestOutcomes :
       IF r = "ok" THEN pc' = "done" /\ err' = err
       ELSE IF r = "http_error" THEN Raise("HTTPError")
       ELSE Raise("RequestException")
  /\ UNCHANGED <<config, fetch, locals, notified>>

\* send_telegram printing the message before it POSTs
SendTelegramEchoesFirst ==
  /\ pc = "send_telegram"
  /\ out' = Append(out, Line("would send", {}))
  /\ IF BOT_TOKEN = ""
     THEN pc' = "done" /\ UNCHANGED <<posts, err>>
     ELSE /\ posts' = posts + 1
          /\ \E r \in RequestOutcomes :
               IF r = "ok" THEN pc' = "done" /\ err' = err
               ELSE IF r = "http_error" THEN Raise("HTTPError")
               ELSE Raise("RequestException")
  /\ UNCHANGED <<config, fetch, locals, notified>>

\* lines 26-39: echo when BOT_TOKEN is empty, else POST and raise_for_status
SendTelegram ==
  /\ pc = "send_telegram"
  /\ IF BOT_TOKEN = ""
     THEN /\ out' = Append(out, Line("would send", {}))
          /\ pc' = "done"
          /\ UNCHANGED <<posts, err>>
     ELSE /\ posts' = posts + 1
          /\ out' = out
          /\ \E r \in RequestOutcomes :
               IF r = "ok" THEN pc' = "done" /\ err' = err
               ELSE IF r = "http_error" THEN Raise("HTTPError")
               ELSE Raise("RequestException")
  /\ UNCHANGED <<config, fetch, locals, notified>>

Next ==
  \/ Import
  \/ FastTier
  \/ History
  \/ Return
  \/ Benchmark
  \/ Ratios
  \/ DebugPrint
  \/ Gate
  \/ SendTelegram

Spec == Init /\ [][Next]_vars

(***************************************************************************)
(* Properties.                                                             *)
(***************************************************************************)
Terminal == pc \in {"done", "failed"}
AfterGate == pc \in {"send_telegram", "done", "failed"}
Last(q) == q[Len(q)]
Printed(kind) == \E i \in DOMAIN out : out[i].line = kind
IsNumber(x) == x.k \in {"zero", "fin"}
PositiveBenchmark == bench_gm # None /\ FGt(bench_gm, Zero(0))

\* the environment holds a token and a chat id that are no placeholders
GoodCredentials ==
  environ.BOT_TOKEN \notin {Missing, Placeholder, ""}
  /\ environ.CHAT_ID \notin {Missing, Placeholder}

\* the quotes assigned so far are positive numbers
Positive(v) == v # None => FGt(v, Zero(0))
PositiveEtfPrices == Positive(groww) /\ Positive(silver_etf)
PositiveQuotes ==
  PositiveEtfPrices /\ Positive(silver_usd_per_oz) /\ Positive(usdinr)

\* the gate as the claims state it, from the two prices and the benchmark
DecisionRule(a, b, bench) ==
  /\ FGt(FAbs(FSub(a, b)), THRESHOLD)
  /\ FLt(FAbs(FSub(FDiv(a, bench), FDiv(b, bench))), RATIO_THRESHOLD)

\* C1: when all four fetches succeeded and the benchmark is positive,
\* send_telegram is invoked, once, exactly when |A - B| > THRESHOLD and
\* |A/benchmark - B/benchmark| < RATIO_THRESHOLD, both strict; otherwise it is
\* not invoked at all.
C1_NotifiedIffDecisionRule ==
  PositiveBenchmark =>
    /\ notified \in {0, 1}
    /\ notified = 1 <=> (AfterGate /\ DecisionRule(groww, silver_etf, bench_gm))
    /\ Terminal /\ ~DecisionRule(groww, silver_etf, bench_gm) => notified = 0

C1_Witness ==
  /\ pc = "done" /\ PositiveBenchmark /\ notified = 1
  /\ DecisionRule(groww, silver_etf, bench_gm)

\* C2: a zero or negative benchmark ends the run with InvalidBenchmarkError:
\* no ratio, ratio difference or alert decision is computed from it, and the
\* error is not a division by zero.  Stated for runs with good credentials
\* and positive ETF prices.
C2_NonPositiveBenchmarkRejected ==
  (GoodCredentials /\ PositiveEtfPrices
     /\ bench_gm # None /\ FLe(bench_gm, Zero(0))) =>
    /\ groww_ratio = None /\ silver_ratio = None /\ ratio_diff = None
    /\ notified = 0 /\ ~Printed("No alert")
    /\ pc \in {"ratios", "failed"}
    /\ pc = "failed" => err = "InvalidBenchmarkError"

\* the fetch in progress failed: neither tier gave a price
FetchFailed == queries # <<>> /\ Last(queries).outcome = "empty"

\* C3: when one of the four fetches fails the run aborts there with an error:
\* no ticker is fetched twice, no later fetch or step runs, nothing is
\* notified and nothing is printed.
C3_FetchFailureAborts ==
  FetchFailed =>
    /\ pc = "failed" /\ err = "RuntimeError"
    /\ fetched = SubSeq(Tickers, 1, call)
    /\ Len(queries) = 2
    /\ (call <= 1 => groww = None) /\ (call <= 2 => silver_etf = None)
    /\ (call <= 3 => silver_usd_per_oz = None) /\ usdinr = None
    /\ bench_gm = None /\ ratio_diff = None
    /\ out = <<>> /\ notified = 0 /\ posts = 0

C3_Witness ==
  /\ FetchFailed /\ pc = "failed" /\ call = 3
  /\ groww # None /\ silver_etf # None

BadCredentials ==
  \/ environ.BOT_TOKEN \in {Missing, Placeholder}
  \/ environ.CHAT_ID \in {Missing, Placeholder}

\* C4: with BOT_TOKEN or CHAT_ID missing or a placeholder the run fails with a
\* configuration error before any POST: no POST is issued in such a run.
\* Stated for runs whose quotes are positive.
C4_BadCredentialsFailFast ==
  (BadCredentials /\ PositiveQuotes) => posts = 0

\* C5: every price last_price returns is strictly positive: a zero or negative
\* value of the provider is never returned, nor assigned in main.  Stated for
\* runs with good credentials.
C5_ReturnedPricesPositive ==
  GoodCredentials =>
    /\ pc = "return" => ~FLe(price, Zero(0))
    /\ \A v \in {groww, silver_etf, silver_usd_per_oz, usdinr} :
         v # None => ~FLe(v, Zero(0))

\* C6: with an empty BOT_TOKEN send_telegram never POSTs: it prints the
\* message locally and returns, so a run whose gate passes ends without error.
C6_EmptyTokenEchoes ==
  environ.BOT_TOKEN = "" =>
    /\ posts = 0
    /\ (notified = 1 /\ pc # "send_telegram") =>
         /\ pc = "done" /\ err = "none"
         /\ Last(out) = Line("would send", {})

C6_Witness ==
  environ.BOT_TOKEN = "" /\ notified = 1 /\ pc = "done" /\ Printed("would send")

\* C7: a run that does not alert prints an explanation that lists exactly the
\* failed conditions: the gap reason iff |A - B| <= THRESHOLD, the sanity
\* reason iff ratio_diff >= RATIO_THRESHOLD, and at least one of them.  Stated
\* for runs with good credentials.
C7_ReasonsListFailedConditions ==
  GoodCredentials =>
    /\ (pc = "done" /\ notified = 0) => Printed("No alert")
    /\ \A i \in DOMAIN out :
         out[i].line = "No alert" =>
           /\ "ETF gap not large enough" \in out[i].reasons
                <=> FLe(FAbs(FSub(groww, silver_etf)), THRESHOLD)
           /\ "Benchmark sanity check failed" \in out[i].reasons
                <=> FGe(ratio_diff, RATIO_THRESHOLD)
           /\ out[i].reasons # {}

\* C8 as claimed: a run that ends in failure has printed nothing.  Stated for
\* runs with good credentials and positive quotes.
C8_FailurePrintsNothing ==
  (GoodCredentials /\ PositiveQuotes /\ pc = "failed") => out = <<>>

\* C8, amended: a run that fails at import, in a fetch or in the ratio
\* computation has printed nothing; a run that fails in the POST has printed
\* the diagnostic values line and nothing else.
C8_FailureOutput ==
  pc = "failed" =>
    /\ err \in {"KeyError", "RuntimeError", "ZeroDivisionError"} => out = <<>>
    /\ err \in {"HTTPError", "RequestException"} => out = <<Line("values", {})>>
    /\ err # "none"

C8_Witness ==
  pc = "failed" /\ err = "HTTPError" /\ out = <<Line("values", {})>>

\* C9: one last_price call queries at most two tiers, the fast one first and
\* the history second, the history only after the fast tier gave nothing or
\* raised; it fails only when the fast tier gave nothing and the history is
\* empty; a fast value is returned without a history query.
C9_TwoTiersInOrder ==
  /\ Len(queries) <= 2
  /\ queries # <<>> => queries[1].tier = "fast"
  /\ Len(queries) = 2 =>
       queries[2].tier = "history" /\ queries[1].outcome \in {"none", "raised"}
  /\ (pc = "failed" /\ err = "RuntimeError") =>
       /\ Len(queries) = 2
       /\ queries[1].outcome \in {"none", "raised"}
       /\ queries[2].outcome = "empty"
  /\ (queries # <<>> /\ queries[1].outcome = "value") =>
       /\ Len(queries) = 1
       /\ pc = "return" /\ price = queries[1].value
  /\ pc = "return" => price = Last(queries).value /\ price # None

C9_Witness ==
  /\ pc = "return" /\ Len(queries) = 2 /\ queries[1].outcome = "raised"
  /\ queries[2].outcome = "bars"

(***************************************************************************)
(* Exact arithmetic on the magnitudes of floats, for the window of C10: a  *)
(* magnitude is m * 2^e with m a natural number of any size.               *)
(***************************************************************************)
Mag(x) == IF x.k = "fin" THEN [m |-> x.m, e |-> x.e] ELSE [m |-> <<>>, e |-> 0]
MinOf(i, j) == IF i < j THEN i ELSE j
DAdd(x, y) ==
  [m |-> BAdd(BShl(x.m, x.e - MinOf(x.e, y.e)), BShl(y.m, y.e - MinOf(x.e, y.e))),
   e |-> MinOf(x.e, y.e)]
DCmp(x, y) ==
  BCmp(BShl(x.m, x.e - MinOf(x.e, y.e)), BShl(y.m, y.e - MinOf(x.e, y.e)))
DLt(x, y) == DCmp(x, y) < 0
DLe(x, y) == DCmp(x, y) <= 0
DAbsDiff(x, y) ==
  LET lo == MinOf(x.e, y.e)
      u == BShl(x.m, x.e - lo)
      v == BShl(y.m, y.e - lo)
  IN  [m |-> IF BCmp(u, v) >= 0 THEN BSub(u, v) ELSE BSub(v, u), e |-> lo]
DMul(x, y) == [m |-> BMul(x.m, y.m), e |-> x.e + y.e]
\* x * 2^j
DScale(x, j) == [m |-> x.m, e |-> x.e + j]

\* |a - b| exactly, for two numbers
ExactGap(a, b) ==
  IF a.k = "fin" /\ b.k = "fin" /\ a.s = b.s THEN DAbsDiff(Mag(a), Mag(b))
  ELSE DAdd(Mag(a), Mag(b))

\* RATIO_THRESHOLD * bench exactly
ExactBound(bench) == DMul(Mag(RATIO_THRESHOLD), Mag(bench))

\* the rounding margin of the window: 2^-51 * (|a| + |b| + bench)
Margin(a, b, bench) == DScale(DAdd(DAdd(Mag(a), Mag(b)), Mag(bench)), -51)

\* a quotient that neither overflowed nor underflowed
InRange(q, dividend) ==
  \/ q.k = "zero" /\ dividend.k = "zero"
  \/ q.k = "fin" /\ BitLen(q.m) = Precision

\* the gate has decided on two numbers and a positive finite benchmark
Decided ==
  /\ AfterGate /\ PositiveBenchmark /\ bench_gm.k = "fin"
  /\ IsNumber(groww) /\ IsNumber(silver_etf)
Fired == notified = 1

\* C10 as claimed: for a positive benchmark the alert fires iff
\* THRESHOLD < |A - B| < RATIO_THRESHOLD * benchmark.  Stated for runs with
\* good credentials and positive quotes.
C10_ExactWindow ==
  (Decided /\ GoodCredentials /\ PositiveQuotes) =>
    (Fired <=> /\ DLt(Mag(THRESHOLD), ExactGap(groww, silver_etf))
               /\ DLt(ExactGap(groww, silver_etf), ExactBound(bench_gm)))

\* C10, amended: the window holds up to the rounding of the two quotients and
\* of their difference.  With M = 2^-51 * (|A| + |B| + benchmark) and no
\* quotient out of range, the alert fires only if
\* THRESHOLD < |A - B| < RATIO_THRESHOLD * benchmark + M, and it does fire if
\* THRESHOLD * (1 + 2^-52) <= |A - B| and |A - B| + M < RATIO_THRESHOLD * benchmark.
C10_WindowUpToRounding ==
  (Decided /\ InRange(groww_ratio, groww) /\ InRange(silver_ratio, silver_etf)) =>
    LET gap == ExactGap(groww, silver_etf)
        bound == ExactBound(bench_gm)
        margin == Margin(groww, silver_etf, bench_gm)
    IN  /\ Fired => DLt(Mag(THRESHOLD), gap) /\ DLt(gap, DAdd(bound, margin))
        /\ ( /\ DLe(DAdd(Mag(THRESHOLD), DScale(Mag(THRESHOLD), -52)), gap)
             /\ DLt(DAdd(gap, margin), bound) ) => Fired

\* benchmark 50, A = 3, B = 2: the alert has fired
C10_Witness ==
  /\ Decided /\ Fired /\ pc = "done"
  /\ bench_gm = FromInt(50) /\ groww = FromInt(3) /\ silver_etf = FromInt(2)

====
